---- MODULE Spec2Model ----
(***************************************************************************)
(* Model of pkg/yurtmanager/controller/raven/utils/utils.go: the raven     *)
(* controller helpers (node IP lookups, endpoint-candidate detection,      *)
(* raven-cfg flag parsing, work-queue enqueue helpers, port validation)    *)
(* and the configuration hash HashObject / PrettyYaml / computeHash.       *)
(*                                                                         *)
(* Go strings whose characters matter (ports, IPs, flag values) are        *)
(* sequences of one-character strings; names that are only compared with   *)
(* "" are plain strings.                                                   *)
(***************************************************************************)
EXTENDS Integers, Sequences, FiniteSets, TLC

VARIABLES port, server, node, internalIP, publicIP, candidate, endpoint,
          q, qcall, hist

vars == <<port, server, node, internalIP, publicIP, candidate, endpoint,
          q, qcall, hist>>

(***************************************************************************)
(* Bounds of the model.                                                    *)
(***************************************************************************)
MaxPortLen == 5
MaxQueue == 4
MaxAddrs == 2
MaxEntries == 2

\* All sequences over S of length at most n.
SeqsUpTo(S, n) == UNION {[1..k -> S] : k \in 0..n}

Digits == {"0", "1", "2", "3", "4", "5", "6", "7", "8", "9"}

DigitVal ==
    [c \in Digits |->
        CASE c = "0" -> 0 [] c = "1" -> 1 [] c = "2" -> 2 [] c = "3" -> 3
          [] c = "4" -> 4 [] c = "5" -> 5 [] c = "6" -> 6 [] c = "7" -> 7
          [] c = "8" -> 8 [] c = "9" -> 9]

(***************************************************************************)
(* IsValidPort                                                             *)
(***************************************************************************)
\* The characters port strings are drawn from: the digits that reach both
\* sides of 65535, the two signs strconv.Atoi accepts, and a non-digit.
PortChars == {"0", "3", "5", "6", "-", "+", "a"}

PortStrings == SeqsUpTo(PortChars, MaxPortLen)

\* strconv.Atoi on a string shorter than 19 characters (the fast path):
\* an optional sign, then at least one character, every one a digit.
RECURSIVE atoiDigits(_, _, _)
atoiDigits(s, i, n) ==
    IF i > Len(s) THEN [err |-> FALSE, n |-> n]
    ELSE IF s[i] \notin Digits THEN [err |-> TRUE, n |-> 0]
    ELSE atoiDigits(s, i + 1, n * 10 + DigitVal[s[i]])

Atoi(s0) ==
    IF Len(s0) = 0 THEN [err |-> TRUE, n |-> 0]
    ELSE LET signed == s0[1] \in {"-", "+"}
             s == IF signed THEN Tail(s0) ELSE s0
         IN  IF Len(s) < 1 THEN [err |-> TRUE, n |-> 0]
             ELSE LET r == atoiDigits(s, 1, 0)
                  IN  IF r.err THEN r
                      ELSE IF s0[1] = "-" THEN [err |-> FALSE, n |-> 0 - r.n]
                      ELSE r

IsValidPortNoLowerBound(s) ==
    IF s = <<>> THEN FALSE
    ELSE LET r == Atoi(s)
         IN  IF r.err THEN FALSE
             ELSE IF r.n > 65535 THEN FALSE
             ELSE TRUE

IsValidPort(s) ==
    IF s = <<>> THEN FALSE
    ELSE LET r == Atoi(s)
         IN  IF r.err THEN FALSE
             ELSE IF r.n < 0 \/ r.n > 65535 THEN FALSE
             ELSE TRUE

CallIsValidPort ==
    /\ ~port.called
    /\ port' = [called |-> TRUE, s |-> port.s, ret |-> IsValidPort(port.s)]
    /\ UNCHANGED <<server, node, internalIP, publicIP, candidate, endpoint,
                   q, qcall, hist>>

(***************************************************************************)
(* CheckServer                                                             *)
(***************************************************************************)
RavenEnableProxy == "enable-l7-proxy"
RavenEnableTunnel == "enable-l3-tunnel"
DefaultEnableL7Proxy == FALSE
DefaultEnableL3Tunnel == TRUE

\* strings.ToLower on the letters the flag values use.
LowerChar(c) ==
    CASE c = "T" -> "t" [] c = "R" -> "r" [] c = "U" -> "u" [] c = "E" -> "e"
      [] c = "F" -> "f" [] c = "A" -> "a" [] c = "L" -> "l" [] c = "S" -> "s"
      [] OTHER -> c

ToLower(s) == [i \in 1..Len(s) |-> LowerChar(s[i])]

StrTrue == <<"t", "r", "u", "e">>

\* Values a flag key of raven-cfg may carry.
FlagValues ==
    { StrTrue, <<"T", "r", "u", "e">>, <<"T", "R", "U", "E">>,
      <<"f", "a", "l", "s", "e">>, <<"F", "A", "L", "S", "E">>,
      <<"1">>, <<>> }

\* cm.Data restricted to the two keys CheckServer reads: a function from the
\* keys that are present to their values.
FlagData ==
    UNION {[K -> FlagValues] : K \in SUBSET {RavenEnableProxy, RavenEnableTunnel}}

NoData == [k \in {} |-> <<>>]

\* What client.Get meets: the raven-cfg ConfigMap may not exist, and a Get of
\* an existing one may still fail.
ServerInputs ==
    { [exists |-> TRUE, getFails |-> f, data |-> d] :
        f \in BOOLEAN, d \in FlagData }
    \cup { [exists |-> FALSE, getFails |-> FALSE, data |-> NoData] }

ClientGetErr(in) == ~in.exists \/ in.getFails

CheckServerTunnelDefaultOff(in) ==
    LET enableTunnel0 == FALSE
        enableProxy0 == DefaultEnableL7Proxy
    IN  IF ClientGetErr(in)
        THEN [enableProxy |-> enableProxy0, enableTunnel |-> enableTunnel0]
        ELSE [enableProxy |->
                 IF RavenEnableProxy \in DOMAIN in.data
                    /\ ToLower(in.data[RavenEnableProxy]) = StrTrue
                 THEN TRUE ELSE enableProxy0,
              enableTunnel |->
                 IF RavenEnableTunnel \in DOMAIN in.data
                    /\ ToLower(in.data[RavenEnableTunnel]) = StrTrue
                 THEN TRUE ELSE enableTunnel0]

CheckServer(in) ==
    LET enableTunnel0 == DefaultEnableL3Tunnel
        enableProxy0 == DefaultEnableL7Proxy
    IN  IF ClientGetErr(in)
        THEN [enableProxy |-> enableProxy0, enableTunnel |-> enableTunnel0]
        ELSE [enableProxy |->
                 IF RavenEnableProxy \in DOMAIN in.data
                    /\ ToLower(in.data[RavenEnableProxy]) = StrTrue
                 THEN TRUE ELSE enableProxy0,
              enableTunnel |->
                 IF RavenEnableTunnel \in DOMAIN in.data
                    /\ ToLower(in.data[RavenEnableTunnel]) = StrTrue
                 THEN TRUE ELSE enableTunnel0]

CallCheckServer ==
    /\ \E in \in ServerInputs :
          server' = [called |-> TRUE, in |-> in, ret |-> CheckServer(in)]
    /\ UNCHANGED <<port, node, internalIP, publicIP, candidate, endpoint,
                   q, qcall, hist>>

(***************************************************************************)
(* Work-queue helpers.  q is the queue handle the helpers are handed: the  *)
(* sequence of requests passed to q.Add, in call order.                    *)
(***************************************************************************)
WorkingNamespace == "kube-system"
RavenProxyNodesConfig == "edge-tunnel-nodes"
GatewayProxyInternalService == "x-raven-proxy-internal-svc"

\* Gateway and NodePool names the callers pass, the empty name included.
Names == {"", "gw-hangzhou", "np-edge", "shared"}

Request(namespace, name) == [Namespace |-> namespace, Name |-> name]

QAdd(item) == q' = Append(q, item)

AddGatewayToWorkQueueUnguarded(gwName) ==
    /\ Len(q) < MaxQueue
    /\ QAdd(Request("", gwName))
    /\ qcall' = [op |-> "AddGatewayToWorkQueue", name |-> gwName]
    /\ UNCHANGED <<port, server, node, internalIP, publicIP, candidate,
                   endpoint, hist>>

AddGatewayToWorkQueue(gwName) ==
    /\ gwName = "" \/ Len(q) < MaxQueue
    /\ IF gwName # "" THEN QAdd(Request("", gwName)) ELSE q' = q
    /\ qcall' = [op |-> "AddGatewayToWorkQueue", name |-> gwName]
    /\ UNCHANGED <<port, server, node, internalIP, publicIP, candidate,
                   endpoint, hist>>

AddNodePoolToWorkQueue(npName) ==
    /\ npName = "" \/ Len(q) < MaxQueue
    /\ IF npName # "" THEN QAdd(Request("", npName)) ELSE q' = q
    /\ qcall' = [op |-> "AddNodePoolToWorkQueue", name |-> npName]
    /\ UNCHANGED <<port, server, node, internalIP, publicIP, candidate,
                   endpoint, hist>>

AddDNSConfigmapToWorkQueue ==
    /\ Len(q) < MaxQueue
    /\ QAdd(Request(WorkingNamespace, RavenProxyNodesConfig))
    /\ qcall' = [op |-> "AddDNSConfigmapToWorkQueue", name |-> ""]
    /\ UNCHANGED <<port, server, node, internalIP, publicIP, candidate,
                   endpoint, hist>>

AddGatewayProxyInternalService ==
    /\ Len(q) < MaxQueue
    /\ QAdd(Request(WorkingNamespace, GatewayProxyInternalService))
    /\ qcall' = [op |-> "AddGatewayProxyInternalService", name |-> ""]
    /\ UNCHANGED <<port, server, node, internalIP, publicIP, candidate,
                   endpoint, hist>>

(***************************************************************************)
(* Node helpers                                                            *)
(***************************************************************************)
LabelNodeProviderPublicIP == "raven.LabelNodeProviderPublicIP"
LabelEndpointCandidate == "raven.LabelEndpointCandidate"
NodeInternalIP == "InternalIP"
NodeExternalIP == "ExternalIP"

\* net.ParseIP on a dotted-decimal literal: four fields of digits separated
\* by single dots, no field above 255, no leading zero.  The scan carries the
\* number of fields closed so far (pos), the value of the current field and
\* its number of digits.
RECURSIVE parseIPv4(_, _, _, _, _)
parseIPv4(s, i, pos, val, digLen) ==
    IF i > Len(s) THEN pos = 3
    ELSE IF s[i] \in Digits
    THEN IF digLen = 1 /\ val = 0 THEN FALSE
         ELSE IF val * 10 + DigitVal[s[i]] > 255 THEN FALSE
         ELSE parseIPv4(s, i + 1, pos, val * 10 + DigitVal[s[i]], digLen + 1)
    ELSE IF s[i] = "."
    THEN IF i = 1 \/ i = Len(s) \/ s[i - 1] = "." THEN FALSE
         ELSE IF pos = 3 THEN FALSE
         ELSE parseIPv4(s, i + 1, pos + 1, 0, 0)
    ELSE FALSE

\* TRUE iff net.ParseIP(s) != nil.  ParseIP looks for the first "." or ":"
\* to choose the family; a string with neither is not an IP.  The strings of
\* the model hold no ":".
ParseIPOk(s) ==
    /\ \E i \in 1..Len(s) : s[i] = "."
    /\ parseIPv4(s, 1, 0, 0, 0)

IP10001 == <<"1", "0", ".", "0", ".", "0", ".", "1">>
IP10002 == <<"1", "0", ".", "0", ".", "0", ".", "2">>
IP256 == <<"2", "5", "6", ".", "0", ".", "0", ".", "1">>
IPShort == <<"1", "0", ".", "0", ".", "1">>
IPLeadingZero == <<"1", "0", ".", "0", ".", "0", ".", "0", "1">>
IPHost == <<"n", "1">>
EmptyStr == <<>>
StrFalse == <<"f", "a", "l", "s", "e">>

\* node.Status.Addresses entries.
AddressValues == {IP10001, IP10002, IP256, IPHost}
Addresses == [Type : {NodeInternalIP, NodeExternalIP}, Address : AddressValues]

\* node.Labels restricted to the two labels the helpers read.
PublicIPValues == {IP10001, IP256, IPShort, IPLeadingZero, EmptyStr}
CandidateValues == {StrTrue, StrFalse, EmptyStr}
NodeLabels ==
    { l \in UNION {[K -> PublicIPValues \cup CandidateValues] :
                      K \in SUBSET {LabelNodeProviderPublicIP, LabelEndpointCandidate}} :
        /\ LabelNodeProviderPublicIP \in DOMAIN l =>
              l[LabelNodeProviderPublicIP] \in PublicIPValues
        /\ LabelEndpointCandidate \in DOMAIN l =>
              l[LabelEndpointCandidate] \in CandidateValues }

Nodes == [Name : {"node-1"}, Labels : NodeLabels,
          Addresses : SeqsUpTo(Addresses, MaxAddrs)]

\* The range loop of GetNodeInternalIP from entry i on, with its break.
RECURSIVE internalIPFrom(_, _)
internalIPFrom(addrs, i) ==
    IF i > Len(addrs) THEN EmptyStr
    ELSE IF addrs[i].Type = NodeInternalIP /\ ParseIPOk(addrs[i].Address)
    THEN addrs[i].Address
    ELSE internalIPFrom(addrs, i + 1)

\* The same loop without the break: the last match wins.
RECURSIVE internalIPLast(_, _, _)
internalIPLast(addrs, i, ip) ==
    IF i > Len(addrs) THEN ip
    ELSE IF addrs[i].Type = NodeInternalIP /\ ParseIPOk(addrs[i].Address)
    THEN internalIPLast(addrs, i + 1, addrs[i].Address)
    ELSE internalIPLast(addrs, i + 1, ip)

GetNodeInternalIPNoBreak(n) == internalIPLast(n.Addresses, 1, EmptyStr)

GetNodeInternalIP(n) == internalIPFrom(n.Addresses, 1)

ErrNone == "nil"
ErrNoLabel == "failed to get public ip, no label"
ErrInvalidLabel == "failed to get public ip, invalid public IP label"
ErrNoCandidateLabel == "node does not have candidate label"
ErrMissingPublicIP == "node missing public ip with label"

GetEdgeNodePublicIPUnparsed(n) ==
    IF LabelNodeProviderPublicIP \notin DOMAIN n.Labels
    THEN [ip |-> EmptyStr, err |-> ErrNoLabel]
    ELSE [ip |-> n.Labels[LabelNodeProviderPublicIP], err |-> ErrNone]

GetEdgeNodePublicIP(n) ==
    IF LabelNodeProviderPublicIP \notin DOMAIN n.Labels
    THEN [ip |-> EmptyStr, err |-> ErrNoLabel]
    ELSE IF ~ParseIPOk(n.Labels[LabelNodeProviderPublicIP])
    THEN [ip |-> EmptyStr, err |-> ErrInvalidLabel]
    ELSE [ip |-> n.Labels[LabelNodeProviderPublicIP], err |-> ErrNone]

IsNodeEndpointCandidate(n) ==
    /\ LabelEndpointCandidate \in DOMAIN n.Labels
    /\ n.Labels[LabelEndpointCandidate] = StrTrue

NoEndpoint == [NodeName |-> "", PublicIP |-> EmptyStr, UnderNAT |-> FALSE,
               Type |-> "", Port |-> ""]

\* The returned pointer is nil exactly when err is not nil; the creation
\* timestamp written to Config plays no part in any decision and is left out.
TryCreateActiveEndpointCandidate(n) ==
    IF LabelEndpointCandidate \notin DOMAIN n.Labels
    THEN [nil |-> TRUE, ep |-> NoEndpoint, err |-> ErrNoCandidateLabel]
    ELSE LET r == GetEdgeNodePublicIP(n)
         IN  IF r.err # ErrNone
             THEN [nil |-> TRUE, ep |-> NoEndpoint, err |-> ErrMissingPublicIP]
             ELSE [nil |-> FALSE,
                   ep |-> [NodeName |-> n.Name, PublicIP |-> r.ip,
                           UnderNAT |-> FALSE, Type |-> "v1beta1.Tunnel",
                           Port |-> "v1beta1.DefaultTunnelServerExposedPort"],
                   err |-> ErrNone]

CallGetNodeInternalIP ==
    /\ internalIP' = [called |-> TRUE, ret |-> GetNodeInternalIP(node)]
    /\ UNCHANGED <<port, server, node, publicIP, candidate, endpoint,
                   q, qcall, hist>>

CallGetEdgeNodePublicIP ==
    /\ publicIP' = [called |-> TRUE, ret |-> GetEdgeNodePublicIP(node)]
    /\ UNCHANGED <<port, server, node, internalIP, candidate, endpoint,
                   q, qcall, hist>>

CallIsNodeEndpointCandidate ==
    /\ candidate' = [called |-> TRUE, ret |-> IsNodeEndpointCandidate(node)]
    /\ UNCHANGED <<port, server, node, internalIP, publicIP, endpoint,
                   q, qcall, hist>>

CallTryCreateActiveEndpointCandidate ==
    /\ endpoint' = [called |-> TRUE, ret |-> TryCreateActiveEndpointCandidate(node)]
    /\ UNCHANGED <<port, server, node, internalIP, publicIP, candidate,
                   q, qcall, hist>>

(***************************************************************************)
(* HashObject: the values handed to it                                     *)
(*                                                                         *)
(* A Go value is a scalar or an object.  An object is a map (kv lists its  *)
(* entries in the order the runtime iterates them) or a struct (kv lists   *)
(* its fields in declaration order).  Integers are kept as two limbs,      *)
(* hi * 2^30 + lo, so that values around 2^53 can be written.              *)
(***************************************************************************)
Limb == 2 ^ 30

Nil == [k |-> "nil"]
Str(s) == [k |-> "string", s |-> s]
Integer(hi, lo) == [k |-> "int", hi |-> hi, lo |-> lo]
NaN == [k |-> "float64", v |-> "NaN"]
\* json.Number("1e999"): a valid number literal outside the float64 range.
Huge == [k |-> "json.Number", hi |-> 0, lo |-> 1, exp |-> 999]
Obj(kind, kv) == [k |-> kind, kv |-> kv]

Two53 == Integer(2 ^ 23, 0)
Two53Plus1 == Integer(2 ^ 23, 1)
Two53Plus2 == Integer(2 ^ 23, 2)

Keys == {"a", "b"}
KeyRank == [key \in Keys |-> IF key = "a" THEN 1 ELSE 2]
Kinds == {"map", "struct"}

Scalars == {Nil, Str(<<"x">>), Str(<<"y">>), Two53, Two53Plus1, Two53Plus2,
            Huge, NaN}

IsObj(v) == v.k \in Kinds

\* Number of key/value entries in the whole tree of v.
RECURSIVE Entries(_)
Entries(v) ==
    IF ~IsObj(v) THEN 0
    ELSE IF Len(v.kv) = 0 THEN 0
    ELSE IF Len(v.kv) = 1 THEN 1 + Entries(v.kv[1][2])
    ELSE 2 + Entries(v.kv[1][2]) + Entries(v.kv[2][2])

\* The values with at most n entries.
RECURSIVE Vals(_)
Vals(n) ==
    Scalars
    \cup {Obj(kind, <<>>) : kind \in Kinds}
    \cup (IF n < 1 THEN {}
          ELSE {Obj(kind, <<<<key, v>>>>) :
                   kind \in Kinds, key \in Keys, v \in Vals(n - 1)})
    \cup (IF n < 2 THEN {}
          ELSE LET W == Vals(n - 2)
               IN  {Obj(x[1], <<<<x[2], x[4]>>, <<x[3], x[5]>>>>) :
                       x \in {y \in Kinds \X Keys \X Keys \X W \X W :
                                 /\ y[2] # y[3]
                                 /\ Entries(y[4]) + Entries(y[5]) <= n - 2}})

Values == Vals(MaxEntries)

(***************************************************************************)
(* json.Marshal.  The bytes it writes are kept as the document they spell: *)
(* null, a string, a number literal, or an object whose members are in the *)
(* order written.  A map's keys are sorted before they are written, a      *)
(* struct's fields are written in declaration order.  NaN cannot be        *)
(* written: Marshal returns an error and no bytes.                         *)
(***************************************************************************)
KeyOf(e) == e[1]
ValOf(e) == e[2]

\* sort of a list of entries by key (insertion into the sorted rest).
RECURSIVE SortByKey(_)
SortByKey(kv) ==
    IF kv = <<>> THEN <<>>
    ELSE LET e == Head(kv)
             rest == SortByKey(Tail(kv))
             Before(x) == KeyRank[KeyOf(x)] < KeyRank[KeyOf(e)]
             NotBefore(x) == ~Before(x)
         IN  SelectSeq(rest, Before) \o <<e>> \o SelectSeq(rest, NotBefore)

RECURSIVE jsonEncode(_)
jsonEncode(v) ==
    CASE v.k = "nil" -> [err |-> FALSE, doc |-> [t |-> "null"]]
      [] v.k = "string" -> [err |-> FALSE, doc |-> [t |-> "string", s |-> v.s]]
      [] v.k = "int" ->
           [err |-> FALSE,
            doc |-> [t |-> "number", hi |-> v.hi, lo |-> v.lo, exp |-> 0]]
      [] v.k = "json.Number" ->
           [err |-> FALSE,
            doc |-> [t |-> "number", hi |-> v.hi, lo |-> v.lo, exp |-> v.exp]]
      [] v.k = "float64" -> [err |-> TRUE, doc |-> [t |-> "null"]]
      [] OTHER ->
           LET kv == IF v.k = "map" THEN SortByKey(v.kv) ELSE v.kv
               enc == [i \in 1..Len(kv) |-> jsonEncode(ValOf(kv[i]))]
           IN  IF \E i \in 1..Len(kv) : enc[i].err
               THEN [err |-> TRUE, doc |-> [t |-> "null"]]
               ELSE [err |-> FALSE,
                     doc |-> [t |-> "object",
                              members |-> [i \in 1..Len(kv) |->
                                             <<KeyOf(kv[i]), enc[i].doc>>]]]

\* data is <<>> (no bytes) when err is set, else the one document written.
Marshal(v) ==
    LET r == jsonEncode(v)
    IN  IF r.err THEN [data |-> <<>>, err |-> TRUE]
        ELSE [data |-> <<r.doc>>, err |-> FALSE]

(***************************************************************************)
(* json.Unmarshal into an empty interface.  Numbers become float64 by      *)
(* strconv.ParseFloat: round to nearest, ties to even; a literal beyond    *)
(* the float64 range is an error that is saved while decoding goes on, and *)
(* the number's place is left nil.                                         *)
(***************************************************************************)
GNil == [g |-> "nil"]

RECURSIVE BitLen(_)
BitLen(n) == IF n = 0 THEN 0 ELSE 1 + BitLen(n \div 2)

\* The float64 nearest to hi * 2^30 + lo, as limbs again.
RoundFloat64(hi, lo) ==
    IF BitLen(hi) <= 23 THEN [hi |-> hi, lo |-> lo]
    ELSE LET ulp == 2 ^ (BitLen(hi) - 23)
             quo == lo \div ulp
             rem == lo % ulp
             up == rem * 2 > ulp \/ (rem * 2 = ulp /\ quo % 2 = 1)
             lo2 == (IF up THEN quo + 1 ELSE quo) * ulp
         IN  IF lo2 = Limb THEN [hi |-> hi + 1, lo |-> 0]
             ELSE [hi |-> hi, lo |-> lo2]

\* The largest decimal exponent of a float64 is 308.
convertNumber(d) ==
    IF d.exp > 308 /\ (d.hi > 0 \/ d.lo > 0)
    THEN [a |-> GNil, err |-> TRUE]
    ELSE LET f == RoundFloat64(d.hi, d.lo)
         IN  [a |-> [g |-> "float64", hi |-> f.hi, lo |-> f.lo], err |-> FALSE]

RECURSIVE valueInterface(_)
valueInterface(d) ==
    CASE d.t = "null" -> [a |-> GNil, err |-> FALSE]
      [] d.t = "string" -> [a |-> [g |-> "string", s |-> d.s], err |-> FALSE]
      [] d.t = "number" -> convertNumber(d)
      [] OTHER ->
           LET ms == d.members
               dec == [i \in 1..Len(ms) |-> valueInterface(ValOf(ms[i]))]
               ks == {KeyOf(ms[i]) : i \in 1..Len(ms)}
               Last(key) == CHOOSE i \in 1..Len(ms) :
                               /\ KeyOf(ms[i]) = key
                               /\ \A j \in 1..Len(ms) :
                                     KeyOf(ms[j]) = key => j <= i
           IN  [a |-> [g |-> "map", m |-> [key \in ks |-> dec[Last(key)].a]],
                err |-> \E i \in 1..Len(ms) : dec[i].err]

\* An Unmarshal that hands back nothing of what it decoded once an error
\* was saved.
UnmarshalAllOrNothing(data) ==
    LET r == IF data = <<>> THEN [a |-> GNil, err |-> TRUE]
             ELSE valueInterface(data[1])
    IN  IF r.err THEN [a |-> GNil, err |-> TRUE] ELSE r

\* Unmarshal(data, &a) with a nil before the call: no bytes is a syntax
\* error that leaves a untouched.
Unmarshal(data) ==
    IF data = <<>> THEN [a |-> GNil, err |-> TRUE]
    ELSE valueInterface(data[1])

(***************************************************************************)
(* PrettyYaml: yaml.Marshal of the generic value.  The text is kept as the *)
(* list of its tokens.  The keys of a map come from reflect's MapKeys in   *)
(* an order the runtime picks (ord) and are sorted before they are         *)
(* written.  A float64 is written with the shortest digits that read back  *)
(* to it, so its token is the float64 itself.                              *)
(***************************************************************************)
Orders == {<<"a", "b">>, <<"b", "a">>}

MapKeys(m, ord) ==
    LET Present(key) == key \in DOMAIN m
    IN  SelectSeq(ord, Present)

RECURSIVE SortKeys(_)
SortKeys(ks) ==
    IF ks = <<>> THEN <<>>
    ELSE LET key == Head(ks)
             rest == SortKeys(Tail(ks))
             Before(x) == KeyRank[x] < KeyRank[key]
             NotBefore(x) == ~Before(x)
         IN  SelectSeq(rest, Before) \o <<key>> \o SelectSeq(rest, NotBefore)

\* The same with six significant digits: every integer from 2^53 on is
\* written as the float64 of its high limb.
FormatFloatPrec6(f) ==
    IF f.hi < 2 ^ 23 THEN [tok |-> "float", hi |-> f.hi, lo |-> f.lo]
    ELSE [tok |-> "float", hi |-> f.hi, lo |-> 0]

\* strconv.FormatFloat(f, 'g', -1, 64)
FormatFloat(f) == [tok |-> "float", hi |-> f.hi, lo |-> f.lo]

RECURSIVE yamlEncode(_, _, _)
yamlEncode(a, ord, sorted) ==
    CASE a.g = "nil" -> <<[tok |-> "null"]>>
      [] a.g = "string" -> <<[tok |-> "string", s |-> a.s]>>
      [] a.g = "float64" -> <<FormatFloat(a)>>
      [] OTHER ->
           LET ks == IF sorted THEN SortKeys(MapKeys(a.m, ord))
                     ELSE MapKeys(a.m, ord)
               Entry(key) == <<[tok |-> "key", s |-> key], [tok |-> "indent"]>>
                             \o yamlEncode(a.m[key], ord, sorted)
                             \o <<[tok |-> "dedent"]>>
               Cat[i \in 0..Len(ks)] ==
                   IF i = 0 THEN <<>> ELSE Cat[i - 1] \o Entry(ks[i])
           IN  IF ks = <<>> THEN <<[tok |-> "{}"]>> ELSE Cat[Len(ks)]

PrettyYamlUnsorted(obj, ord) == yamlEncode(obj, ord, FALSE)

PrettyYaml(obj, ord) == yamlEncode(obj, ord, TRUE)

\* sha256.Sum224 and the lower-case hex of it, taken to be free of
\* collisions: the digest stands for the text it was computed from.
computeHash(target) == [sha224 |-> target]

\* HashObject(o), with what it logged: marshalErr is the error of
\* json.Marshal that the code drops, logged is the klog.Errorf of the
\* Unmarshal error.
HashObject(o, ord) ==
    LET m == Marshal(o)
        u == Unmarshal(m.data)
    IN  [o |-> o,
         marshalErr |-> m.err,
         logged |-> u.err,
         digest |-> computeHash(PrettyYaml(u.a, ord))]

(***************************************************************************)
(* The callers of HashObject.  A reconciler hashes an object it observed   *)
(* (calls[1]) and hashes it again later: the same content handed over      *)
(* with another key order or as another type, and then with one scalar     *)
(* leaf changed.  hist.calls keeps the first call and the latest one.      *)
(***************************************************************************)
\* The values with the content of v: any order of the entries and either
\* kind of object, at every level.
RECURSIVE Reorderings(_)
Reorderings(v) ==
    IF ~IsObj(v) THEN {v}
    ELSE LET n == Len(v.kv)
             R(i) == Reorderings(ValOf(v.kv[i]))
             Choices == {f \in [1..n -> UNION {R(i) : i \in 1..n}] :
                            \A i \in 1..n : f[i] \in R(i)}
         IN  {Obj(kind, [i \in 1..n |-> <<KeyOf(v.kv[p[i]]), f[p[i]]>>]) :
                 kind \in Kinds, p \in Permutations(1..n), f \in Choices}

\* The values got from v by giving one scalar leaf another value.
RECURSIVE LeafVariants(_)
LeafVariants(v) ==
    IF ~IsObj(v) THEN Scalars \ {v}
    ELSE UNION {{Obj(v.k, [v.kv EXCEPT ![i] = <<KeyOf(v.kv[i]), w>>]) :
                    w \in LeafVariants(ValOf(v.kv[i]))} : i \in 1..Len(v.kv)}

Latest == hist.calls[Len(hist.calls)]

HashObserved ==
    /\ hist.calls = <<>>
    /\ \E o \in Values, ord \in Orders :
          hist' = [calls |-> <<HashObject(o, ord)>>, changed |-> FALSE]
    /\ UNCHANGED <<port, server, node, internalIP, publicIP, candidate,
                   endpoint, q, qcall>>

\* A reordering of a reordering is a reordering of the first value, so one
\* such call after the first reaches every pair there is.
HashReordered ==
    /\ Len(hist.calls) = 1
    /\ \E o \in Reorderings(Latest.o), ord \in Orders :
          hist' = [hist EXCEPT !.calls = <<hist.calls[1], HashObject(o, ord)>>]
    /\ UNCHANGED <<port, server, node, internalIP, publicIP, candidate,
                   endpoint, q, qcall>>

HashChanged ==
    /\ hist.calls # <<>>
    /\ ~hist.changed
    /\ \E o \in LeafVariants(Latest.o), ord \in Orders :
          hist' = [calls |-> <<hist.calls[1], HashObject(o, ord)>>,
                   changed |-> TRUE]
    /\ UNCHANGED <<port, server, node, internalIP, publicIP, candidate,
                   endpoint, q, qcall>>

(***************************************************************************)
(* Initial states and specifications, one per group of helpers.            *)
(***************************************************************************)
NotCalled == [called |-> FALSE]
Node0 == [Name |-> "node-1", Labels |-> NoData, Addresses |-> <<>>]

InitPort(S) == port \in [called : {FALSE}, s : S, ret : {FALSE}]
InitServer == server = NotCalled
InitNode(N) ==
    /\ node \in N
    /\ internalIP = NotCalled
    /\ publicIP = NotCalled
    /\ candidate = NotCalled
    /\ endpoint = NotCalled
InitQueue ==
    /\ q = <<>>
    /\ qcall = [op |-> "", name |-> ""]
InitHash == hist = [calls |-> <<>>, changed |-> FALSE]

Init ==
    /\ InitPort({<<>>}) /\ InitServer /\ InitNode({Node0}) /\ InitQueue /\ InitHash

InitPorts ==
    /\ InitPort(PortStrings) /\ InitServer /\ InitNode({Node0}) /\ InitQueue
    /\ InitHash
NextPort == CallIsValidPort
SpecPort == InitPorts /\ [][NextPort]_vars

NextServer == CallCheckServer
SpecServer == Init /\ [][NextServer]_vars

InitNodes ==
    /\ InitPort({<<>>}) /\ InitServer /\ InitNode(Nodes) /\ InitQueue /\ InitHash
NextNode ==
    \/ CallGetNodeInternalIP
    \/ CallGetEdgeNodePublicIP
    \/ CallIsNodeEndpointCandidate
    \/ CallTryCreateActiveEndpointCandidate
SpecNode == InitNodes /\ [][NextNode]_vars

NextQueue ==
    \/ \E gwName \in Names : AddGatewayToWorkQueue(gwName)
    \/ \E npName \in Names : AddNodePoolToWorkQueue(npName)
    \/ AddDNSConfigmapToWorkQueue
    \/ AddGatewayProxyInternalService
SpecQueue == Init /\ [][NextQueue]_vars

NextHash ==
    \/ HashObserved
    \/ HashReordered
    \/ HashChanged
SpecHash == Init /\ [][NextHash]_vars

(***************************************************************************)
(* Properties of IsValidPort                                               *)
(***************************************************************************)
\* The digits of s after an optional sign.
PortBody(s) == IF s # <<>> /\ s[1] \in {"-", "+"} THEN Tail(s) ELSE s

IsDecimal(s) ==
    /\ PortBody(s) # <<>>
    /\ \A i \in 1..Len(PortBody(s)) : PortBody(s)[i] \in Digits

\* The integer a decimal string denotes: the sum of its digits weighted by
\* their powers of ten, negated after a minus sign.
DecimalValue(s) ==
    LET b == PortBody(s)
        Sum[i \in 0..Len(b)] ==
            IF i = 0 THEN 0
            ELSE Sum[i - 1] + DigitVal[b[i]] * 10 ^ (Len(b) - i)
    IN  IF s[1] = "-" THEN 0 - Sum[Len(b)] ELSE Sum[Len(b)]

\* C7: IsValidPort(s) is true if and only if s is a base-10 integer n with
\* 0 <= n <= 65535; it is false for the empty string, for a non-numeric
\* string, for a negative value and for a value above 65535.
C7_ValidPortIffInRange ==
    port.called =>
        (port.ret <=> (IsDecimal(port.s)
                       /\ DecimalValue(port.s) >= 0
                       /\ DecimalValue(port.s) <= 65535))

C7_Witness ==
    /\ port.called
    /\ port.s = <<"6", "5", "5", "3", "5">>
    /\ port.ret

(***************************************************************************)
(* Properties of CheckServer                                               *)
(***************************************************************************)
HasFlag(key) ==
    /\ server.in.exists
    /\ ~server.in.getFails
    /\ key \in DOMAIN server.in.data

\* C4: a flag with no value to read (raven-cfg cannot be fetched, or the
\* flag's key is absent) is returned as its default: enableTunnel true,
\* enableProxy false, each flag on its own.
C4_DefaultsWhenUnset ==
    server.called =>
        /\ ~HasFlag(RavenEnableTunnel) => server.ret.enableTunnel = TRUE
        /\ ~HasFlag(RavenEnableProxy) => server.ret.enableProxy = FALSE

C4_Witness ==
    /\ server.called
    /\ HasFlag(RavenEnableProxy)
    /\ ~HasFlag(RavenEnableTunnel)
    /\ server.ret.enableProxy = TRUE
    /\ server.ret.enableTunnel = TRUE

\* C5: a flag whose key is present in the fetched raven-cfg is returned as
\* true if and only if its lower-cased value is "true", for enable-l7-proxy
\* and for enable-l3-tunnel alike.
C5_FlagIsValueMatch ==
    server.called =>
        \A key \in {RavenEnableProxy, RavenEnableTunnel} :
            HasFlag(key) =>
                ((IF key = RavenEnableProxy THEN server.ret.enableProxy
                  ELSE server.ret.enableTunnel)
                 <=> ToLower(server.in.data[key]) = StrTrue)

(***************************************************************************)
(* Properties of the node helpers                                          *)
(***************************************************************************)
\* The strings of the model that are IP literals.
ValidIPs == {IP10001, IP10002}

HasLabel(key) == key \in DOMAIN node.Labels

\* C6: GetEdgeNodePublicIP returns (ip, nil) if and only if the public-IP
\* label is present and is a valid IP literal, and then ip is the label
\* value; an absent label gives "" and the missing-label error, an invalid
\* one gives "" and the invalid-format error, and the two errors differ.
C6_PublicIPOutcomes ==
    publicIP.called =>
        LET r == publicIP.ret
            valid == /\ HasLabel(LabelNodeProviderPublicIP)
                     /\ node.Labels[LabelNodeProviderPublicIP] \in ValidIPs
        IN  /\ r.err = ErrNone <=> valid
            /\ valid => r.ip = node.Labels[LabelNodeProviderPublicIP]
            /\ ~HasLabel(LabelNodeProviderPublicIP) =>
                  r.ip = EmptyStr /\ r.err = ErrNoLabel
            /\ HasLabel(LabelNodeProviderPublicIP) /\ ~valid =>
                  r.ip = EmptyStr /\ r.err = ErrInvalidLabel
            /\ ErrNoLabel # ErrInvalidLabel

C6_Witness ==
    /\ publicIP.called
    /\ HasLabel(LabelNodeProviderPublicIP)
    /\ node.Labels[LabelNodeProviderPublicIP] = IP256
    /\ publicIP.ret.err = ErrInvalidLabel

\* C8: GetNodeInternalIP returns the address of the first entry of the
\* address list that is internal and a valid IP literal, skipping the
\* entries before it, and "" exactly when there is no such entry.
C8_FirstValidInternal ==
    internalIP.called =>
        LET addrs == node.Addresses
            good == {i \in 1..Len(addrs) :
                        /\ addrs[i].Type = NodeInternalIP
                        /\ addrs[i].Address \in ValidIPs}
        IN  /\ good = {} <=> internalIP.ret = EmptyStr
            /\ good # {} =>
                  \E i \in good :
                      /\ \A j \in good : i <= j
                      /\ internalIP.ret = addrs[i].Address

C8_Witness ==
    /\ internalIP.called
    /\ Len(node.Addresses) = 2
    /\ node.Addresses[1] = [Type |-> NodeInternalIP, Address |-> IP256]
    /\ node.Addresses[2] = [Type |-> NodeInternalIP, Address |-> IP10002]
    /\ internalIP.ret = IP10002

\* C9: TryCreateActiveEndpointCandidate returns an endpoint only for a node
\* that IsNodeEndpointCandidate accepts: the endpoint-candidate label is
\* present with the value "true".
C9_EndpointOnlyForCandidate ==
    endpoint.called /\ ~endpoint.ret.nil =>
        /\ HasLabel(LabelEndpointCandidate)
        /\ node.Labels[LabelEndpointCandidate] = StrTrue
        /\ candidate.called => candidate.ret = TRUE

(***************************************************************************)
(* Properties of the work-queue helpers                                    *)
(***************************************************************************)
NameHelpers == {"AddGatewayToWorkQueue", "AddNodePoolToWorkQueue"}

KeySet(v) == {KeyOf(v.kv[i]) : i \in 1..Len(v.kv)}
Lookup(v, key) == ValOf(v.kv[CHOOSE i \in 1..Len(v.kv) : KeyOf(v.kv[i]) = key])

\* v1 and v2 hold the same keys mapped to the same values at every level,
\* whatever the order of their entries and the kind of their objects.
RECURSIVE SemEq(_, _)
SemEq(v1, v2) ==
    IF IsObj(v1) /\ IsObj(v2)
    THEN /\ KeySet(v1) = KeySet(v2)
         /\ \A key \in KeySet(v1) : SemEq(Lookup(v1, key), Lookup(v2, key))
    ELSE v1 = v2

\* v1 and v2 have the same structure: the same keys at every level, with
\* scalars at the same places.
RECURSIVE SameShape(_, _)
SameShape(v1, v2) ==
    IF IsObj(v1) /\ IsObj(v2)
    THEN /\ KeySet(v1) = KeySet(v2)
         /\ \A key \in KeySet(v1) : SameShape(Lookup(v1, key), Lookup(v2, key))
    ELSE ~IsObj(v1) /\ ~IsObj(v2)

\* An integer that is a float64: below 2^53, or a multiple of the spacing of
\* the float64s of its size.
ExactFloat64(hi, lo) ==
    \/ hi < 2 ^ 23
    \/ lo % (2 ^ (BitLen(hi) - 23)) = 0

\* A scalar the JSON round trip hands back as it was.
Preserved(v) ==
    \/ v.k \in {"nil", "string"}
    \/ v.k = "int" /\ ExactFloat64(v.hi, v.lo)

\* Some scalar leaf differs between v1 and v2 (of the same shape) and holds
\* a preserved value in both.
RECURSIVE PreservedDiff(_, _)
PreservedDiff(v1, v2) ==
    IF IsObj(v1)
    THEN \E key \in KeySet(v1) : PreservedDiff(Lookup(v1, key), Lookup(v2, key))
    ELSE v1 # v2 /\ Preserved(v1) /\ Preserved(v2)

First == hist.calls[1]
Twice == Len(hist.calls) = 2

\* C1: two semantically equal inputs (the same keys mapped to the same
\* values at every nesting level, in any key order, one value passed twice
\* included) get the identical digest.
C1_EqualValuesEqualDigests ==
    Twice /\ SemEq(First.o, Latest.o) => First.digest = Latest.digest

C1_Witness ==
    /\ Twice
    /\ First.o = Obj("struct", <<<<"b", Two53>>, <<"a", Nil>>>>)
    /\ Latest.o # First.o
    /\ SemEq(First.o, Latest.o)
    /\ Latest.o.k = "map"
    /\ First.digest = Latest.digest

\* C2 as stated: two inputs of the same structure that differ in the value
\* of at least one scalar leaf get different digests.
C2_AnyLeafChangeChangesDigest ==
    Twice /\ SameShape(First.o, Latest.o) /\ ~SemEq(First.o, Latest.o) =>
        First.digest # Latest.digest

\* C2 amended: two inputs of the same structure get different digests when
\* json.Marshal succeeds on at least one of them and some scalar leaf
\* differs between them whose value is, in both, one the JSON round trip
\* preserves (null, a string, an integer that is a float64).
C2_PreservedLeafChangeChangesDigest ==
    /\ Twice
    /\ SameShape(First.o, Latest.o)
    /\ ~(First.marshalErr /\ Latest.marshalErr)
    /\ PreservedDiff(First.o, Latest.o)
    => First.digest # Latest.digest

C2_Witness ==
    /\ Twice
    /\ First.o = Obj("struct", <<<<"a", Two53>>, <<"b", Str(<<"x">>)>>>>)
    /\ Latest.o = Obj("struct", <<<<"a", Two53Plus2>>, <<"b", Str(<<"x">>)>>>>)
    /\ First.digest # Latest.digest

\* The digest HashObject returns for the nil value.
ZeroDigest == HashObject(Nil, <<"a", "b">>).digest

\* C3 as stated: HashObject always returns a digest, and when the JSON
\* round trip fails the digest is the one of the nil value.
C3_FailureGivesZeroDigest ==
    hist.calls # <<>> =>
        /\ Latest.digest.sha224 # <<>>
        /\ Latest.logged => Latest.digest = ZeroDigest

\* The value left by a decoding that failed: every number beyond the
\* float64 range is nil, the rest is as it was written.
RECURSIVE Degraded(_)
Degraded(v) ==
    IF IsObj(v)
    THEN Obj(v.k, [i \in 1..Len(v.kv) |-> <<KeyOf(v.kv[i]), Degraded(ValOf(v.kv[i]))>>])
    ELSE IF v.k = "json.Number" /\ v.exp > 308 THEN Nil
    ELSE v

\* C3 amended: HashObject always returns a digest; when json.Marshal fails
\* the digest is the one of the nil value; when only the decoding fails (a
\* number beyond the float64 range) the digest is the one of the input with
\* every such number replaced by null.
C3_FailureGivesDegradedDigest ==
    hist.calls # <<>> =>
        /\ Latest.digest.sha224 # <<>>
        /\ Latest.marshalErr => Latest.logged /\ Latest.digest = ZeroDigest
        /\ Latest.logged /\ ~Latest.marshalErr =>
              /\ ~HashObject(Degraded(Latest.o), <<"a", "b">>).logged
              /\ Latest.digest = HashObject(Degraded(Latest.o), <<"a", "b">>).digest

C3_Witness ==
    /\ hist.calls # <<>>
    /\ Latest.o = Obj("map", <<<<"b", Two53>>, <<"a", Huge>>>>)
    /\ Latest.logged
    /\ ~Latest.marshalErr
    /\ Latest.digest # ZeroDigest
    /\ Latest.digest = HashObject(Obj("map", <<<<"a", Nil>>, <<"b", Two53>>>>), <<"b", "a">>).digest

====
